---- MODULE Spec2Model ----
(***************************************************************************)
(* Model of nnptr (include/nnptr/sref.hpp): NotNull<T>, instantiated with  *)
(* T = std::shared_ptr<X>, and sref<X>, whose only member data_ is a       *)
(* NotNull<std::shared_ptr<X>>.                                            *)
(*                                                                         *)
(* A client program owns a few variables: wrapper slots (each a            *)
(* NotNull<shared_ptr<X>>, used directly or as the data_ of an sref<X>),   *)
(* one plain std::shared_ptr<Derived> handle h, and one local value x.     *)
(* Every action is one call of a constructor, operator or destructor of    *)
(* the header, with everything that call does.                             *)
(***************************************************************************)
EXTENDS Integers, FiniteSets, Sequences, TLC

MaxObj == 2        \* heap objects that may be alive at the same time
MaxW == 3          \* wrapper variables (NotNull<shared_ptr<X>> / sref<X>)
DemoVal == 9       \* the value ref1 holds in the demonstration

Obj == 1..MaxObj
W == 1..MaxW
StackX == MaxObj + 1           \* address of the client's local x (not heap)
StackTmp == MaxObj + 2         \* address of a temporary of the client
Addr == Obj \cup {StackX, StackTmp}
Values == {DemoVal, 2 * DemoVal}

Null == 0                      \* nullptr / a shared_ptr equal to nullptr
NONE == -1                     \* the variable does not exist (out of scope)

VARIABLES
    checked,   \* TRUE unless the build defines NO_NNPTR_CHECKS (or NDEBUG)
    status,    \* "running", "terminated" (std::terminate), "undefined" (crashed)
    mem,       \* the heap: per object its state, value and share count
    wr,        \* wr[w]: payload of wrapper w (an object, Null) or NONE
    hd,        \* payload of the handle h (an object, Null) or NONE
    last       \* the operation called last

vars == <<checked, status, mem, wr, hd, last>>

(* Static types of the variables: the first wrapper is an sref<Base>, the   *)
(* others are sref<Derived>; the handle is a shared_ptr<Derived>.          *)
WType(w) == IF w = 1 THEN "Base" ELSE "Derived"
HType == "Derived"

(* std::is_convertible<T*, Y*>: same type, or derived-to-base. *)
Convertible(t, y) == t = y \/ (t = "Derived" /\ y = "Base")

----------------------------------------------------------------------------
(* The shared-ownership primitive the header builds on (std::shared_ptr).  *)
(* A shared_ptr value is the object it shares (its control block and the   *)
(* object are created and destroyed together), or Null when it compares    *)
(* equal to nullptr.                                                       *)

\* (p == nullptr) for a shared_ptr p
IsNullSp(p) == p = Null

\* copy of a shared_ptr: one more share
SpCopy(m, p) == IF IsNullSp(p) THEN m ELSE [m EXCEPT !.cnt[p] = @ + 1]

\* delete o: the storage of a live heap object is released; anything else
\* (a second delete, a delete of a local) corrupts the heap
Delete(m, o) ==
    IF o \in Obj /\ m.st[o] = "live"
    THEN [m EXCEPT !.st[o] = "free", !.val[o] = DemoVal]
    ELSE [m EXCEPT !.corrupt = TRUE]

\* destructor of a shared_ptr: the last share deletes the object
SpRelease(m, p) ==
    IF IsNullSp(p) THEN m
    ELSE IF m.cnt[p] = 1
         THEN Delete([m EXCEPT !.cnt[p] = 0], p)
         ELSE [m EXCEPT !.cnt[p] = @ - 1]

\* std::shared_ptr<T>{ raw }: the first share of the object raw points to
\* (of nothing, when raw is null)
SpFromRaw(m, raw) == IF raw = Null THEN m ELSE [m EXCEPT !.cnt[raw] = 1]

FreshObj(m) == CHOOSE o \in Obj : m.st[o] = "free" /\ \A d \in Obj : d < o => m.st[d] # "free"
HasFreshObj(m) == \E o \in Obj : m.st[o] = "free"

\* new X(v)
New(m, v) == [m EXCEPT !.st[FreshObj(m)] = "live", !.val[FreshObj(m)] = v]

----------------------------------------------------------------------------
(* NotNull<T>                                                              *)

\* Mutations of NullCheckFails: the check left out of a checked build, and
\* the check left in an unchecked build.
NullCheckOff(p) == FALSE
NullCheckAlways(p) == IsNullSp(p)

\* the check of the constructors and of get(): compiled out by NO_NNPTR_CHECKS
NullCheckFails(p) == checked /\ IsNullSp(p)

\* what one call of the header yields: the heap after it, the shared_ptr it
\* produced, whether it called std::terminate, whether it dereferenced
\* null, and what it left in the variable it was given
Res(m, p, t, u, s) == [mem |-> m, ptr |-> p, term |-> t, ub |-> u, src |-> s]

\* Mutation of NotNull_ctor_fwd: the constructor without its check.
NotNull_ctor_fwd_unchecked(m, src, rvalue) ==
    [mem |-> IF rvalue THEN m ELSE SpCopy(m, src), ptr |-> src, term |-> FALSE,
     ub |-> FALSE, src |-> IF rvalue THEN Null ELSE src]

\* NotNull(U&& u) : ptr_(std::forward<U>(u)), then the check.
\* From an lvalue the shared_ptr is copied, from an rvalue it is moved
\* (and the source is left empty).
NotNull_ctor_fwd(m, src, rvalue) ==
    Res(IF rvalue THEN m ELSE SpCopy(m, src), src, NullCheckFails(src), FALSE,
        IF rvalue THEN Null ELSE src)

\* NotNull(T u) : ptr_(std::move(u)), then the check.
\* The by-value parameter is copied (or moved) from the argument, then moved.
NotNull_ctor_val(m, src, rvalue) ==
    Res(IF rvalue THEN m ELSE SpCopy(m, src), src, NullCheckFails(src), FALSE,
        IF rvalue THEN Null ELSE src)

\* NotNull::get(): the check, then a copy of ptr_ is returned
NotNull_get(m, p) == Res(SpCopy(m, p), p, NullCheckFails(p), FALSE, p)

\* NotNull(const NotNull<U>& other) : NotNull(other.get())
NotNull_ctor_conv(m, other) ==
    LET g == NotNull_get(m, other)
        c == NotNull_ctor_fwd(g.mem, g.ptr, TRUE)
    IN  Res(c.mem, c.ptr, g.term \/ c.term, FALSE, other)

\* NotNull(const NotNull& other) = default
NotNull_copy(m, other) == Res(SpCopy(m, other), other, FALSE, FALSE, other)

\* NotNull& operator=(const NotNull& other) = default: ptr_ = other.ptr_
NotNull_assign(m, self, other) ==
    Res(SpRelease(SpCopy(m, other), self), other, FALSE, FALSE, other)

\* operator*(): *get(); the temporary get() returned dies with the call.
\* The result's ptr is the address of the pointee.
NotNull_deref(m, p) ==
    LET g == NotNull_get(m, p)
    IN  Res(SpRelease(g.mem, g.ptr), p, g.term, ~g.term /\ IsNullSp(p), p)

----------------------------------------------------------------------------
(* sref<T>                                                                 *)

\* Mutation of sref_from_value: the reference keeps the address of its
\* argument instead of a copy of it.
sref_from_value_alias(m, src) == Res(m, src, FALSE, FALSE, src)

\* sref(X&& other) / sref(const X& other):
\*    data_{ std::shared_ptr<T>{ new X(other) } }
\* other is the object at address src; it is copied, never moved from.
sref_from_value(m, src) ==
    LET r == NotNull_ctor_fwd(SpFromRaw(New(m, m.val[src]), FreshObj(m)),
                              FreshObj(m), TRUE)
    IN  Res(r.mem, r.ptr, r.term, FALSE, src)

\* Mutation of sref_copy: the copy takes no share of its own.
sref_copy_noshare(m, other) == Res(m, other, FALSE, FALSE, other)

\* sref(const sref<T>& other) : data_{ other.data_ }
sref_copy(m, other) == NotNull_copy(m, other)

\* Mutation of sref_move: a move that empties its source.
sref_move_steal(m, corpse) == Res(m, corpse, FALSE, FALSE, Null)

\* sref(const sref<T>&& corpse) : data_{ corpse.data_ }
sref_move(m, corpse) == NotNull_copy(m, corpse)

\* Mutation of sref_from_sptr: the handle is moved from, not copied.
sref_from_sptr_move(m, data) == NotNull_ctor_fwd(m, data, TRUE)

\* sref(std::shared_ptr<T>& data) : data_{ data }
sref_from_sptr(m, data) == NotNull_ctor_fwd(m, data, FALSE)

\* sref(T* data) : data_{ std::shared_ptr<T>{ data } }
sref_from_raw(m, data) ==
    LET r == NotNull_ctor_fwd(SpFromRaw(m, data), data, TRUE)
    IN  Res(r.mem, r.ptr, r.term, FALSE, data)

\* operator*(), get(), operator T&(), operator->(): return *data_
sref_deref(m, p) == NotNull_deref(m, p)

\* sptr(): return data_ (through NotNull::operator T(), which is get())
sref_sptr(m, p) == NotNull_get(m, p)

\* Mutations of sref_assign: an assignment that rebinds the reference, and
\* one that gives up its own share before it takes the other.
sref_assign_rebind(m, self, other, sameInstance) == NotNull_assign(m, self, other)
sref_assign_release_first(m, self, other, sameInstance) ==
    Res(SpCopy(SpRelease(m, self), other), other, FALSE, FALSE, other)

\* operator=(const sref<T>& other):
\*    if (this == &other) return *this;  (*this->data_) = (*other.data_);
\* The result's ptr is what this->data_ holds afterwards.
sref_assign(m, self, other, sameInstance) ==
    IF sameInstance THEN Res(m, self, FALSE, FALSE, other)
    ELSE LET r == NotNull_deref(m, other)
             l == NotNull_deref(r.mem, self)
         IN  IF r.term \/ r.ub \/ l.term \/ l.ub
             THEN Res(m, self, r.term \/ l.term,
                      ~(r.term \/ l.term) /\ (r.ub \/ l.ub), other)
             ELSE Res([l.mem EXCEPT !.val[l.ptr] = l.mem.val[r.ptr]], self,
                      FALSE, FALSE, other)

\* Mutation of sref_convert: the converted reference takes no share.
sref_convert_noshare(m, p) ==
    LET g == NotNull_get(m, p)
    IN  Res(SpRelease(g.mem, g.ptr), p, g.term, FALSE, p)

\* operator sref<Y>(): std::shared_ptr<Y> py = data_.get(); return py;
\* py is an lvalue: the returned sref<Y> copies it, then py is destroyed.
sref_convert(m, p) ==
    LET g == NotNull_get(m, p)
        r == sref_from_sptr(g.mem, g.ptr)
    IN  Res(SpRelease(r.mem, r.src), r.ptr, g.term \/ r.term, FALSE, p)

\* ~sref() / ~NotNull(): the member shared_ptr is destroyed
sref_destroy(m, p) == SpRelease(m, p)

----------------------------------------------------------------------------
(* The program                                                             *)

Init ==
    /\ checked \in BOOLEAN
    /\ status = "running"
    /\ mem = [st   |-> [o \in Obj |-> "free"],
              val  |-> [a \in Addr |-> DemoVal],
              cnt  |-> [o \in Obj |-> 0],
              corrupt |-> FALSE]
    /\ wr = [w \in W |-> NONE]
    /\ hd = NONE
    /\ last = "init"

\* the common end of a call: std::terminate() ends the program where it
\* stands; a dereference of null is undefined, and the build either crashes
\* there or runs on with the access having had no effect; otherwise the
\* call's effects take place
Finish(r, w2, h2, l) ==
    /\ last' = l
    /\ UNCHANGED checked
    /\ status' \in IF r.term THEN {"terminated"}
                   ELSE IF r.ub THEN {"undefined", "running"} ELSE {"running"}
    /\ IF r.term \/ r.ub
       THEN UNCHANGED <<mem, wr, hd>>
       ELSE mem' = r.mem /\ wr' = w2 /\ hd' = h2

Running == status = "running"

\* NotNull<shared_ptr<T>> w(h);  or  w(std::move(h));  through NotNull(U&&)
NN_ConstructFwd(w, rvalue) ==
    /\ Running /\ wr[w] = NONE /\ hd # NONE
    /\ Convertible(HType, WType(w))
    /\ LET r == NotNull_ctor_fwd(mem, hd, rvalue)
       IN  Finish(r, [wr EXCEPT ![w] = r.ptr], r.src,
                  IF rvalue THEN "nn_fwd_move" ELSE "nn_fwd_copy")

\* the same through NotNull(T u), for h of exactly the payload type
NN_ConstructVal(w, rvalue) ==
    /\ Running /\ wr[w] = NONE /\ hd # NONE
    /\ HType = WType(w)
    /\ LET r == NotNull_ctor_val(mem, hd, rvalue)
       IN  Finish(r, [wr EXCEPT ![w] = r.ptr], r.src,
                  IF rvalue THEN "nn_val_move" ELSE "nn_val_copy")

\* NotNull<shared_ptr<T>> w(a);  with a a NotNull<shared_ptr<U>>, U # T
NN_ConstructConv(w, a) ==
    /\ Running /\ wr[w] = NONE /\ wr[a] # NONE
    /\ WType(a) # WType(w) /\ Convertible(WType(a), WType(w))
    /\ LET r == NotNull_ctor_conv(mem, wr[a])
       IN  Finish(r, [wr EXCEPT ![w] = r.ptr, ![a] = r.src], hd, "nn_conv")

\* NotNull<shared_ptr<T>> w(a);  with a of the same type
NN_Copy(w, a) ==
    /\ Running /\ wr[w] = NONE /\ wr[a] # NONE
    /\ WType(a) = WType(w)
    /\ LET r == NotNull_copy(mem, wr[a])
       IN  Finish(r, [wr EXCEPT ![w] = r.ptr, ![a] = r.src], hd, "nn_copy")

\* w = a;  on two NotNull wrappers of the same type
NN_Assign(w, a) ==
    /\ Running /\ wr[w] # NONE /\ wr[a] # NONE
    /\ WType(a) = WType(w)
    /\ LET r == NotNull_assign(mem, wr[w], wr[a])
       IN  Finish(r, [wr EXCEPT ![a] = r.src, ![w] = r.ptr], hd, "nn_assign")

\* std::shared_ptr<T> h = w.get();  or  h = w;  (operator T() is get())
NN_Get(w) ==
    /\ Running /\ wr[w] # NONE /\ hd = NONE
    /\ Convertible(WType(w), HType)
    /\ LET r == NotNull_get(mem, wr[w])
       IN  Finish(r, [wr EXCEPT ![w] = r.src], r.ptr, "nn_get")

\* sref<T> w(x);  the local x is copied into a new object
Sref_FromValue(w) ==
    /\ Running /\ wr[w] = NONE /\ HasFreshObj(mem)
    /\ LET r == sref_from_value(mem, StackX)
       IN  Finish(r, [wr EXCEPT ![w] = r.ptr], hd, "sref_value")

\* sref<T> w(a + b);  a and b are read through operator T&(); the sum is a
\* temporary, which the new sref packs and which then goes away
Sref_PackSum(w, a, b) ==
    /\ Running /\ wr[w] = NONE /\ wr[a] # NONE /\ wr[b] # NONE
    /\ HasFreshObj(mem)
    /\ LET ra == sref_deref(mem, wr[a])
           rb == sref_deref(ra.mem, wr[b])
       IN  IF ra.term \/ ra.ub \/ rb.term \/ rb.ub
           THEN Finish(Res(mem, Null, ra.term \/ rb.term,
                           ~(ra.term \/ rb.term) /\ (ra.ub \/ rb.ub), Null),
                       wr, hd, "sref_sum")
           ELSE /\ mem.val[ra.ptr] + mem.val[rb.ptr] \in Values
                /\ LET tmp == [rb.mem EXCEPT
                                 !.val[StackTmp] = mem.val[ra.ptr] + mem.val[rb.ptr]]
                       r == sref_from_value(tmp, StackTmp)
                   IN  Finish([r EXCEPT !.mem.val[StackTmp] = DemoVal],
                              [wr EXCEPT ![w] = r.ptr], hd, "sref_sum")

\* sref<T> w(a);
Sref_Copy(w, a) ==
    /\ Running /\ wr[w] = NONE /\ wr[a] # NONE
    /\ WType(a) = WType(w)
    /\ LET r == sref_copy(mem, wr[a])
       IN  Finish(r, [wr EXCEPT ![w] = r.ptr, ![a] = r.src], hd, "sref_copy")

\* sref<T> w(std::move(a));
Sref_Move(w, a) ==
    /\ Running /\ wr[w] = NONE /\ wr[a] # NONE
    /\ WType(a) = WType(w)
    /\ LET r == sref_move(mem, wr[a])
       IN  Finish(r, [wr EXCEPT ![w] = r.ptr, ![a] = r.src], hd, "sref_move")

\* sref<T> w(h);  h an lvalue std::shared_ptr<T>
Sref_FromSptr(w) ==
    /\ Running /\ wr[w] = NONE /\ hd # NONE
    /\ HType = WType(w)
    /\ LET r == sref_from_sptr(mem, hd)
       IN  Finish(r, [wr EXCEPT ![w] = r.ptr], r.src, "sref_sptr_ctor")

\* sref<T> w(new T{v});  the raw pointer owns a fresh object
Sref_FromRaw(w, v) ==
    /\ Running /\ wr[w] = NONE /\ HasFreshObj(mem)
    /\ LET r == sref_from_raw(New(mem, v), FreshObj(mem))
       IN  Finish(r, [wr EXCEPT ![w] = r.ptr], hd, "sref_raw")

\* T* p = nullptr;  sref<T> w(p);
Sref_FromNullRaw(w) ==
    /\ Running /\ wr[w] = NONE
    /\ LET r == sref_from_raw(mem, Null)
       IN  Finish(r, [wr EXCEPT ![w] = r.ptr], hd, "sref_null_raw")

\* *w = v;  (also w.get() = v, and through operator T&())
Sref_Mutate(w, v) ==
    /\ Running /\ wr[w] # NONE
    /\ LET r == sref_deref(mem, wr[w])
       IN  Finish(IF r.term \/ r.ub THEN r
                  ELSE [r EXCEPT !.mem.val[r.ptr] = v],
                  wr, hd, "sref_mutate")

\* std::shared_ptr<T> h = w.sptr();
Sref_Sptr(w) ==
    /\ Running /\ wr[w] # NONE /\ hd = NONE
    /\ Convertible(WType(w), HType)
    /\ LET r == sref_sptr(mem, wr[w])
       IN  Finish(r, [wr EXCEPT ![w] = r.src], r.ptr, "sref_sptr")

\* w = a;  on two sref<T> (w and a may be the same variable)
Sref_Assign(w, a) ==
    /\ Running /\ wr[w] # NONE /\ wr[a] # NONE
    /\ WType(a) = WType(w)
    /\ LET r == sref_assign(mem, wr[w], wr[a], w = a)
       IN  Finish(r, [wr EXCEPT ![a] = r.src, ![w] = r.ptr], hd, "sref_assign")

\* sref<Base> w = a;  with a an sref<Derived>
Sref_Convert(w, a) ==
    /\ Running /\ wr[w] = NONE /\ wr[a] # NONE
    /\ WType(a) # WType(w) /\ Convertible(WType(a), WType(w))
    /\ LET r == sref_convert(mem, wr[a])
       IN  Finish(r, [wr EXCEPT ![w] = r.ptr, ![a] = r.src], hd, "sref_convert")

\* the wrapper variable w goes out of scope
Destroy(w) ==
    /\ Running /\ wr[w] # NONE
    /\ Finish(Res(sref_destroy(mem, wr[w]), Null, FALSE, FALSE, Null),
              [wr EXCEPT ![w] = NONE], hd, "destroy")

\* std::shared_ptr<T> h;  an empty handle of the client
MakeEmptyHandle ==
    /\ Running /\ hd = NONE
    /\ Finish(Res(mem, Null, FALSE, FALSE, Null), wr, Null, "handle_empty")

\* std::shared_ptr<T> h(new T{v});
MakeHandle(v) ==
    /\ Running /\ hd = NONE /\ HasFreshObj(mem)
    /\ Finish(Res(SpFromRaw(New(mem, v), FreshObj(mem)), Null, FALSE, FALSE, Null),
              wr, FreshObj(mem), "handle_new")

\* the handle h goes out of scope
DestroyHandle ==
    /\ Running /\ hd # NONE
    /\ Finish(Res(SpRelease(mem, hd), Null, FALSE, FALSE, Null),
              wr, NONE, "handle_destroy")

\* x = v;  the client changes its local value
SetLocal(v) ==
    /\ Running /\ mem.val[StackX] # v
    /\ Finish(Res([mem EXCEPT !.val[StackX] = v], Null, FALSE, FALSE, Null),
              wr, hd, "set_local")

\* what a client does around the wrappers: scopes end, handles come and go
ClientNext ==
    \/ \E w \in W : Destroy(w)
    \/ MakeEmptyHandle
    \/ \E v \in Values : MakeHandle(v)
    \/ DestroyHandle

NotNullNext ==
    \/ \E w \in W, rv \in BOOLEAN : NN_ConstructFwd(w, rv)
    \/ \E w \in W, rv \in BOOLEAN : NN_ConstructVal(w, rv)
    \/ \E w \in W, a \in W : NN_ConstructConv(w, a)
    \/ \E w \in W, a \in W : NN_Copy(w, a)
    \/ \E w \in W, a \in W : NN_Assign(w, a)
    \/ \E w \in W : NN_Get(w)

\* every constructor, member and conversion of sref
SrefNext ==
    \/ \E w \in W : Sref_FromValue(w)
    \/ \E w \in W, a \in W : Sref_Copy(w, a)
    \/ \E w \in W, a \in W : Sref_Move(w, a)
    \/ \E w \in W : Sref_FromSptr(w)
    \/ \E w \in W, v \in Values : Sref_FromRaw(w, v)
    \/ \E w \in W : Sref_FromNullRaw(w)
    \/ \E w \in W, v \in Values : Sref_Mutate(w, v)
    \/ \E w \in W : Sref_Sptr(w)
    \/ \E w \in W, a \in W : Sref_Assign(w, a)
    \/ \E w \in W, a \in W : Sref_Convert(w, a)

\* the first part of the demonstration: values are packed into references,
\* copied, read, summed and packed again, while the local x changes
PackNext ==
    \/ \E w \in W : Sref_FromValue(w)
    \/ \E w \in W, a \in W, b \in W : Sref_PackSum(w, a, b)
    \/ \E w \in W, a \in W : Sref_Copy(w, a)
    \/ \E w \in W, v \in Values : Sref_FromRaw(w, v)
    \/ \E w \in W, v \in Values : Sref_Mutate(w, v)
    \/ \E w \in W : Destroy(w)
    \/ \E v \in Values : SetLocal(v)

Next == NotNullNext \/ SrefNext \/ ClientNext

\* a client that uses every operation of the header
Spec == Init /\ [][Next]_vars

\* a client that uses sref only
SpecSref == Init /\ [][SrefNext \/ ClientNext]_vars

\* a client that uses NotNull<shared_ptr<T>> only
SpecNotNull == Init /\ [][NotNullNext \/ ClientNext]_vars

\* a client that packs values
SpecPack == Init /\ [][PackNext]_vars

----------------------------------------------------------------------------
(* State functions the properties use                                      *)

\* how many variables of the client share object o
Owners(o) == Cardinality({w \in W : wr[w] = o}) + (IF hd = o THEN 1 ELSE 0)

Live(o) == o \in Obj /\ mem.st[o] = "live"

----------------------------------------------------------------------------
(* NotNull: the payload is never null in a checked build                   *)

\* C1: in a checked build, whatever NotNull operations ran (construction
\* from a convertible value, from T, from a NotNull of a convertible type,
\* copy construction, copy assignment, get, conversion to T), every wrapper
\* that exists holds a payload that is not equal to nullptr.
C1_PayloadNeverNull ==
    checked => \A w \in W : wr[w] # NONE => ~IsNullSp(wr[w])

\* every wrapper exists, the last one was built by moving the handle in,
\* which left the handle empty
C1_Witness ==
    /\ checked /\ Running /\ last = "nn_fwd_move"
    /\ hd = Null
    /\ \A w \in W : Live(wr[w])

\* C9: in an unchecked build no NotNull constructor and no get() terminates
\* the program: each constructor stores the value it is given, null
\* included, and get() returns the stored value unchanged.  A wrapper that
\* holds null exists in an unchecked build only.
C9_UncheckedAcceptsNull ==
    [][/\ ~checked =>
            /\ status' # "terminated"
            /\ \A w \in W, rv \in BOOLEAN :
                 NN_ConstructFwd(w, rv) \/ NN_ConstructVal(w, rv)
                    => status' = "running" /\ wr'[w] = hd
            /\ \A w \in W, a \in W :
                 NN_ConstructConv(w, a) \/ NN_Copy(w, a)
                    => status' = "running" /\ wr'[w] = wr[a]
            /\ \A w \in W :
                 NN_Get(w) => status' = "running" /\ hd' = wr[w] /\ wr' = wr
       /\ (\E w \in W : wr'[w] = Null) => ~checked
      ]_vars

\* an unchecked build in which get() has just returned the null a wrapper holds
C9_Witness ==
    /\ ~checked /\ Running /\ last = "nn_get"
    /\ hd = Null
    /\ \E w \in W : wr[w] = Null

\* C3: in a checked build, constructing a NotNull from a null shared_ptr,
\* an sref from an empty shared_ptr or an sref from a null raw pointer
\* ends in std::terminate: no wrapper comes into existence, no wrapper ever
\* holds null, and a terminated program takes no further step.
C3_NullConstructionTerminates ==
    [][checked =>
         /\ \A w \in W, rv \in BOOLEAN :
              hd = Null /\ (NN_ConstructFwd(w, rv) \/ NN_ConstructVal(w, rv))
                 => status' = "terminated" /\ wr' = wr
         /\ \A w \in W :
              hd = Null /\ Sref_FromSptr(w)
                 => status' = "terminated" /\ wr' = wr
         /\ \A w \in W :
              Sref_FromNullRaw(w) => status' = "terminated" /\ wr' = wr
         /\ status # "terminated"
         /\ \A w \in W : wr'[w] # Null
      ]_vars

\* a checked build that terminated in sref(T*) called with a null pointer
C3_Witness ==
    /\ checked /\ status = "terminated" /\ last = "sref_null_raw"
    /\ \E w \in W : wr[w] = NONE

----------------------------------------------------------------------------
(* sref: shared ownership                                                  *)

C4_CopyMoveShare ==
    [][/\ \A w \in W, a \in W :
            Live(wr[a]) /\ (Sref_Copy(w, a) \/ Sref_Move(w, a)) =>
               /\ status' = "running"
               /\ wr'[w] = wr[a] /\ wr'[a] = wr[a]
               /\ mem'.st = mem.st /\ mem'.val = mem.val
       /\ \A w \in W, v \in Values :
            Live(wr[w]) /\ Sref_Mutate(w, v) =>
               /\ status' = "running" /\ wr' = wr
               /\ \A a \in W : wr[a] = wr[w] => mem'.val[wr'[a]] = v
      ]_vars

\* two references of one type share an object and nothing else does; the
\* object has just been written through one of them
C4_Witness ==
    /\ Running /\ last = "sref_mutate" /\ hd = NONE
    /\ \E w \in W, a \in W :
         /\ w # a /\ WType(w) = WType(a)
         /\ wr[w] = wr[a] /\ Live(wr[w])
         /\ mem.cnt[wr[w]] = 2 /\ mem.val[wr[w]] = 2 * DemoVal

\* C5: w = a between two sref of one type on different objects copies the
\* value of a's object into w's object and rebinds nothing: both references
\* stay where they were, no share count changes, a's object keeps its
\* value, and every sharer of w's object reads the new value.
C5_AssignThrough ==
    [][\A w \in W, a \in W :
         Live(wr[w]) /\ Live(wr[a]) /\ wr[w] # wr[a] /\ Sref_Assign(w, a) =>
            /\ status' = "running"
            /\ wr' = wr /\ hd' = hd
            /\ mem'.cnt = mem.cnt /\ mem'.st = mem.st
            /\ mem'.val[wr[a]] = mem.val[wr[a]]
            /\ \A c \in W : wr[c] = wr[w] => mem'.val[wr'[c]] = mem.val[wr[a]]
            /\ hd = wr[w] => mem'.val[hd'] = mem.val[wr[a]]
            /\ \A x \in Addr \ {wr[w]} : mem'.val[x] = mem.val[x]
      ]_vars

\* an assignment has just run; w's object has another sharer c, a refers to
\* another object, and both objects hold the assigned value
C5_Witness ==
    /\ Running /\ last = "sref_assign"
    /\ \E w \in W, a \in W, c \in W :
         /\ w # a /\ w # c /\ a # c /\ WType(w) = WType(a)
         /\ Live(wr[w]) /\ Live(wr[a]) /\ wr[w] # wr[a] /\ wr[c] = wr[w]
         /\ mem.val[wr[w]] = 2 * DemoVal /\ mem.val[wr[a]] = 2 * DemoVal
         /\ mem.cnt[wr[w]] = 2 /\ mem.cnt[wr[a]] = 1

\* C10: w = a between two sref that refer to one object, the same variable
\* or two variables, changes nothing: not the value, not what any reference
\* refers to, not a share count.
C10_SelfAssignNoOp ==
    [][\A w \in W, a \in W :
         Live(wr[w]) /\ wr[a] = wr[w] /\ Sref_Assign(w, a) =>
            UNCHANGED <<status, mem, wr, hd>>
      ]_vars

\* an assignment has just run while every reference shared one object
C10_Witness ==
    /\ Running /\ last = "sref_assign" /\ hd = NONE
    /\ \E w \in W, a \in W :
         /\ w # a /\ WType(w) = WType(a)
         /\ wr[w] = wr[a] /\ Live(wr[w])
         /\ mem.val[wr[w]] = 2 * DemoVal
         /\ \A c \in W : wr[c] \in {NONE, wr[w]}

\* C6: converting an sref<Derived> to an sref<Base> copies no object: the
\* new reference refers to the same object and holds one more share of it.
\* Whichever reference is destroyed, the object is alive afterwards exactly
\* if another reference or handle still shares it, and it is released once.
C6_ConvertShares ==
    [][/\ \A w \in W, a \in W :
            Live(wr[a]) /\ Sref_Convert(w, a) =>
               /\ status' = "running"
               /\ wr'[w] = wr[a] /\ wr'[a] = wr[a]
               /\ mem'.cnt[wr[a]] = mem.cnt[wr[a]] + 1
               /\ mem'.st = mem.st /\ mem'.val = mem.val
       /\ \A w \in W :
            Live(wr[w]) /\ Destroy(w) =>
               /\ ~mem'.corrupt
               /\ mem'.st[wr[w]] =
                     IF (\E c \in W : wr'[c] = wr[w]) \/ hd' = wr[w]
                     THEN "live" ELSE "free"
      ]_vars

\* the sref<Base> has just been converted from an sref<Derived>: two shares
C6_Witness ==
    /\ Running /\ last = "sref_convert" /\ hd = NONE
    /\ \E w \in W, a \in W :
         /\ WType(w) = "Base" /\ WType(a) = "Derived"
         /\ wr[w] = wr[a] /\ Live(wr[w]) /\ mem.cnt[wr[w]] = 2

\* C7: an sref built from a non-null shared_ptr h takes a share of its own:
\* h still refers to the object, the sref refers to it too, and the share
\* count is one higher.  The object survives the destruction of h alone and
\* of the sref alone.
C7_FromSptrCopies ==
    [][/\ \A w \in W :
            Live(hd) /\ Sref_FromSptr(w) =>
               /\ status' = "running"
               /\ hd' = hd /\ wr'[w] = hd
               /\ mem'.cnt[hd] = mem.cnt[hd] + 1
               /\ mem'.st = mem.st /\ mem'.val = mem.val
       /\ Live(hd) /\ (\E w \in W : wr[w] = hd) /\ DestroyHandle =>
            mem'.st[hd] = "live"
       /\ \A w \in W :
            Live(hd) /\ wr[w] = hd /\ Destroy(w) =>
               hd' = hd /\ mem'.st[hd] = "live"
      ]_vars

\* an sref has just been built from the handle: they share, two shares
C7_Witness ==
    /\ Running /\ last = "sref_sptr_ctor"
    /\ Live(hd) /\ mem.cnt[hd] = 2
    /\ \E w \in W : wr[w] = hd

====
